---- MODULE Spec2Model ----
(***************************************************************************)
(* A model of the relational AST of edb/pgsql/ast.py: the nullability      *)
(* inference protocol of BaseExpr, the N-ary join assembly of JoinExpr,    *)
(* the per-flavor path-tracking maps of EdgeQLPathInfo and Query, and the  *)
(* CTE list of Query.                                                      *)
(*                                                                         *)
(* Python objects are heap cells named by small integers; a field holding  *)
(* a reference holds the cell's number, and None is the number 0 (or the   *)
(* empty tuple for an Optional[bool]).                                     *)
(***************************************************************************)
EXTENDS Integers, Sequences, FiniteSets, TLC

VARIABLES
    \* ---- join assembly (JoinExpr.make_inplace) ----
    rvars,      \* heap of range variables: rvars[i] is the node with id i
    jcall,      \* arguments of the last make_inplace call (larg = 0: none yet)
    jret,       \* id returned by the last make_inplace call (0: none yet)
    jlog,       \* per node id, the clauses appended to it, in call order
    \* ---- nullability protocol (BaseExpr.__init__) ----
    nkind,      \* class of the node being constructed
    nexplicit,  \* the nullable= keyword argument (NoneB when not given)
    nkwargs,    \* the other keyword arguments, in the order they were passed
    nres,       \* "unbuilt", or the outcome of the construction
    null_safe,  \* the null_safe= keyword argument of a FuncCall
    \* ---- path tracking of one query node (EdgeQLPathInfo, Query) ----
    q,          \* the node's fields; a map-valued field holds a map id, 0 = None
    maps,       \* heap of dict objects: maps[i] is the dict with id i
    handles,    \* the map references callers hold, with the flavor asked for
    shadow,     \* per family and flavor, the entries callers wrote through it
    pop,        \* the last operation: its name and flavor argument
    pret,       \* the map id the last accessor call returned (0 = None)
    perr,       \* "ok", or the exception the last operation raised
    nwrites,    \* number of map writes made so far
    pcalled,    \* the creating accessors that have returned for 'packed'
    psupplied,  \* the packed-map fields the constructor was given a dict for
    \* ---- CTE list of one query node (Query.append_cte) ----
    ctes,       \* the ctes field: NoneL, or SomeL(list of CTE ids)
    cteInit,    \* the ctes field as the constructor left it
    cteLog,     \* the CTEs passed to append_cte, in call order
    \* ---- one DML statement node (DMLQuery.target_list) ----
    dml,        \* the node: its class and the id of its returning_list
    rlists,     \* heap of list objects: rlists[i] is the list with id i
    dop,        \* the last operation on the node
    dret,       \* the list id the last read of target_list gave (0: none yet)
    dheld,      \* the list ids callers got from target_list so far
    \* ---- range variables and the relations behind them (query) ----
    rheap,      \* heap of relations, CTEs and range variables, by id
    qrv,        \* the range variable whose query was read last, since the
                \* heap last changed (0: none)
    qres,       \* outcome of that read: the exception or the relation id
    \* ---- a heap of built nodes (nullable after construction) ----
    nodes,      \* nodes[i] is the node with id i: class, nullable, children
    nstored,    \* per node, the value last stored in nullable by its
                \* constructor or by an assignment to the field
    \* ---- one LRU cache (LRUMapping) ----
    lru,        \* the cache: whether it was built, _dict (an OrderedDict as
                \* the sequence of its items, oldest first) and _maxsize
    lmaxsize,   \* the maxsize argument of the constructor call
    lop,        \* the last operation: name, key, value, exception, result
    ltouch,     \* the stored keys, least recently touched first
    levicted,   \* the keys the last operation evicted
    lhad,       \* whether the key of the last operation was stored before it
    \* ---- iterator CTEs (IteratorCTE.parent) ----
    iters,      \* heap of IteratorCTE nodes: iters[i] has id i
    iop         \* the last operation on the heap and the exception it raised

joinVars == <<rvars, jcall, jret, jlog>>
nullVars == <<nkind, nexplicit, nkwargs, nres, null_safe>>
pathVars == <<q, maps, handles, shadow, pop, pret, perr, nwrites, pcalled,
             psupplied>>
cteVars == <<ctes, cteInit, cteLog>>
dmlVars == <<dml, rlists, dop, dret, dheld>>
rvVars == <<rheap, qrv, qres>>
nodeVars == <<nodes, nstored>>
lruVars == <<lru, lmaxsize, lop, ltouch, levicted, lhad>>
iterVars == <<iters, iop>>
vars == <<joinVars, nullVars, pathVars, cteVars, dmlVars, rvVars, nodeVars, lruVars, iterVars>>
notJoinVars == <<nullVars, pathVars, cteVars, dmlVars, rvVars, nodeVars, lruVars, iterVars>>
notNullVars == <<joinVars, pathVars, cteVars, dmlVars, rvVars, nodeVars, lruVars, iterVars>>
notPathVars == <<joinVars, nullVars, cteVars, dmlVars, rvVars, nodeVars, lruVars, iterVars>>
notCteVars == <<joinVars, nullVars, pathVars, dmlVars, rvVars, nodeVars, lruVars, iterVars>>
notDmlVars == <<joinVars, nullVars, pathVars, cteVars, rvVars, nodeVars, lruVars, iterVars>>
notRvVars == <<joinVars, nullVars, pathVars, cteVars, dmlVars, nodeVars, lruVars, iterVars>>
notNodeVars == <<joinVars, nullVars, pathVars, cteVars, dmlVars, rvVars, lruVars, iterVars>>
notLruVars == <<joinVars, nullVars, pathVars, cteVars, dmlVars, rvVars, nodeVars, iterVars>>
notIterVars == <<joinVars, nullVars, pathVars, cteVars, dmlVars, rvVars, nodeVars, lruVars>>

(***************************************************************************)
(* Bounds of the model.                                                    *)
(***************************************************************************)
MaxCalls == 3        \* make_inplace calls in one run
MaxItems == 2        \* elements of a container-valued argument
MaxCoalesceArgs == 3 \* length of a COALESCE argument list
MaxWrites == 2       \* writes to the path-tracking maps in one run
MaxCtes == 4         \* append_cte calls in one run
MaxReturning == 2    \* length of a returning list
MaxLists == 2        \* list objects one DML node is given in one run
MaxComponents == 2   \* component range variables of an intersection
MaxNodes == 2        \* nodes built in one run
MaxSize == 2         \* largest maxsize a cache is built with
MaxIters == 3        \* IteratorCTE nodes built in one run

(***************************************************************************)
(* Optional[bool]: None is <<>>, a bool b is <<b>>.                        *)
(***************************************************************************)
NoneB == <<>>
SomeB(b) == <<b>>
OptBool == {NoneB, SomeB(TRUE), SomeB(FALSE)}

(***************************************************************************)
(* Values a keyword argument can take.                                     *)
(*   scalar : a str/int/bool/enum, no nullable attribute                   *)
(*   none   : None                                                         *)
(*   node   : a child node; hasattr says whether it has a nullable         *)
(*            attribute (a BaseExpr has; a RecordIndirectionOp or a Star   *)
(*            has not)                                                     *)
(*   list   : a list/tuple of such children                                *)
(***************************************************************************)
Scalar == [t |-> "scalar"]
NoneV == [t |-> "none"]
Child(b) == [t |-> "node", hasattr |-> TRUE, nullable |-> b]
PlainChild == [t |-> "node", hasattr |-> FALSE, nullable |-> FALSE]
ListOf(items) == [t |-> "list", items |-> items]

\* typeutils.is_container(v)
is_container(v) == v.t = "list"

\* getattr(v, 'nullable', <falsy default>), as a truth value
GetAttrNullable(v) == v.t = "node" /\ v.hasattr /\ v.nullable

\* any(getattr(vv, 'nullable', False) for vv in items)
AnyNullable(items) == \E i \in 1..Len(items) : GetAttrNullable(items[i])

(***************************************************************************)
(* BaseExpr._infer_nullability: scan kwargs.values() in order, stop at the *)
(* first argument found nullable.                                          *)
(***************************************************************************)
RECURSIVE InferScan(_, _)
InferScan(kw, i) ==
    IF i > Len(kw) THEN FALSE
    ELSE LET v == kw[i].val
             nullable == IF is_container(v) THEN AnyNullable(v.items)
                         ELSE GetAttrNullable(v)
         IN  IF nullable THEN TRUE ELSE InferScan(kw, i + 1)

\* A plausible slip: only the first keyword argument is looked at.
_infer_nullability_first_only(kw) == Len(kw) >= 1 /\ InferScan(SubSeq(kw, 1, 1), 1)

_infer_nullability(kw) == InferScan(kw, 1)

(***************************************************************************)
(* The nullable field's class-level default,                               *)
(* type(self).get_field('nullable').default.                               *)
(***************************************************************************)
HardCodedKinds == {"SubLink", "RowExpr", "ImplicitRowExpr", "NullTest", "BooleanTest"}

\* A plausible slip: the test and row classes declare no default of their own.
ClassDefault_undeclared(kind) ==
    CASE kind = "SelectStmt" -> SomeB(TRUE)
      [] kind = "NullConstant" -> SomeB(TRUE)
      [] kind = "VariadicArgument" -> SomeB(FALSE)
      [] OTHER -> NoneB

ClassDefault(kind) ==
    CASE kind = "SelectStmt" -> SomeB(TRUE)
      [] kind = "NullConstant" -> SomeB(TRUE)
      [] kind = "VariadicArgument" -> SomeB(FALSE)
      [] kind \in HardCodedKinds -> SomeB(FALSE)
      [] OTHER -> NoneB

\* The outcome of a call: [err |-> "ok", val |-> b], or the exception raised.
Ok(b) == [err |-> "ok", val |-> b]
Raise(e) == [err |-> e, val |-> FALSE]

\* 'args' in kwargs, and kwargs['args']
HasKw(kw, name) == \E i \in 1..Len(kw) : kw[i].name = name
KwVal(kw, name) == kw[CHOOSE i \in 1..Len(kw) : kw[i].name = name].val

(***************************************************************************)
(* CoalesceExpr._infer_nullability: kwargs['args'][1].nullable, that is    *)
(* the SECOND element of args (Python counts from 0), and True without     *)
(* args.                                                                   *)
(***************************************************************************)
CoalesceExpr_infer_nullability(kw) ==
    IF HasKw(kw, "args")
    THEN LET items == KwVal(kw, "args").items
         IN  IF Len(items) < 2 THEN Raise("IndexError")
             ELSE Ok(items[2].nullable)
    ELSE Ok(TRUE)

\* self._infer_nullability(kwargs), dispatched on the node's class
InferFor(kind, kw) ==
    IF kind = "CoalesceExpr" THEN CoalesceExpr_infer_nullability(kw)
    ELSE Ok(_infer_nullability(kw))

\* A plausible slip: the class default is consulted before the argument.
_is_nullable_default_first(kind, kw, nullable) ==
    IF ClassDefault(kind) # NoneB THEN Ok(ClassDefault(kind)[1])
    ELSE IF nullable # NoneB THEN Ok(nullable[1])
    ELSE InferFor(kind, kw)

(***************************************************************************)
(* BaseExpr._is_nullable: the explicit argument, else the class default,   *)
(* else the inference.                                                     *)
(***************************************************************************)
_is_nullable(kind, kw, nullable) ==
    IF nullable # NoneB THEN Ok(nullable[1])
    ELSE IF ClassDefault(kind) # NoneB THEN Ok(ClassDefault(kind)[1])
    ELSE InferFor(kind, kw)

(***************************************************************************)
(* The constructor calls the model enumerates: for each class, the fields  *)
(* a caller can pass and the values each takes.  The keyword arguments of  *)
(* a call are any of the fields, in any order.                             *)
(*   Expr(name: str, lexpr, rexpr: Optional[BaseExpr])                     *)
(*   Indirection(arg: BaseExpr, indirection: list[IndirectionOp]), where   *)
(*     an Index or a Slice has a nullable attribute and a Star or a        *)
(*     RecordIndirectionOp has none                                        *)
(*   SelectStmt(where_clause: Optional[BaseExpr],                          *)
(*              target_list: list[ResTarget])                              *)
(*   NullConstant()                                                        *)
(*   VariadicArgument(expr: BaseExpr)                                      *)
(*   CoalesceExpr(args: list[Base])                                        *)
(*   FuncCall(name: tuple[str, ...], args: list[BaseExpr],                 *)
(*            agg_order: Optional[list[SortBy]],                           *)
(*            agg_filter: Optional[BaseExpr]); a SortBy has no nullable    *)
(*     attribute                                                           *)
(*   SubLink(test_expr: Optional[BaseExpr], operator: str, expr: BaseExpr) *)
(*   RowExpr(args: list[BaseExpr]), ImplicitRowExpr(args: Sequence)        *)
(*   NullTest(arg: BaseExpr, negated: bool)                                *)
(*   BooleanTest(arg: BaseExpr, negated: bool, is_true: bool)              *)
(***************************************************************************)
NKinds == {"Expr", "Indirection", "SelectStmt", "NullConstant",
           "VariadicArgument", "CoalesceExpr", "FuncCall"} \cup HardCodedKinds
Exprs == {Child(TRUE), Child(FALSE)}
SeqsUpTo(S, lo, hi) == UNION {[1..n -> S] : n \in lo..hi}
ListsOf(S, lo, hi) == {ListOf(l) : l \in SeqsUpTo(S, lo, hi)}
Fields(kind) ==
    CASE kind = "Expr" -> {"name", "lexpr", "rexpr"}
      [] kind = "Indirection" -> {"arg", "indirection"}
      [] kind = "SelectStmt" -> {"where_clause", "target_list"}
      [] kind = "NullConstant" -> {}
      [] kind = "VariadicArgument" -> {"expr"}
      [] kind = "CoalesceExpr" -> {"args"}
      [] kind = "FuncCall" -> {"name", "args", "agg_order", "agg_filter"}
      [] kind = "SubLink" -> {"test_expr", "operator", "expr"}
      [] kind \in {"RowExpr", "ImplicitRowExpr"} -> {"args"}
      [] kind = "NullTest" -> {"arg", "negated"}
      [] kind = "BooleanTest" -> {"arg", "negated", "is_true"}
FieldValues(kind, name) ==
    CASE name = "name" /\ kind # "FuncCall" -> {Scalar}
      [] name = "name" /\ kind = "FuncCall" -> {ListOf(<<Scalar>>)}
      [] name \in {"operator", "negated", "is_true"} -> {Scalar}
      [] name \in {"lexpr", "rexpr", "where_clause", "test_expr", "agg_filter"} ->
            {NoneV} \cup Exprs
      [] name \in {"arg", "expr"} -> Exprs
      [] name = "indirection" -> ListsOf(Exprs \cup {PlainChild}, 0, MaxItems)
      [] name = "target_list" -> ListsOf(Exprs, 0, MaxItems)
      [] name = "agg_order" -> {NoneV} \cup ListsOf({PlainChild}, 1, MaxItems)
      [] name = "args" /\ kind = "CoalesceExpr" -> ListsOf(Exprs, 0, MaxCoalesceArgs)
      [] name = "args" /\ kind # "CoalesceExpr" -> ListsOf(Exprs, 0, MaxItems)
\* the ways to pass the fields of S, each once, in some order
Orderings(S) ==
    {o \in [1..Cardinality(S) -> S] :
        \A i \in DOMAIN o, j \in DOMAIN o : i # j => o[i] # o[j]}
Assignments(kind, S) ==
    {v \in [S -> UNION {FieldValues(kind, n) : n \in S}] :
        \A n \in S : v[n] \in FieldValues(kind, n)}
KwargsOf(kind) ==
    UNION {{[i \in DOMAIN o |-> [name |-> o[i], val |-> v[o[i]]]] :
              o \in Orderings(S), v \in Assignments(kind, S)} :
           S \in SUBSET Fields(kind)}

Unbuilt == [err |-> "unbuilt", val |-> FALSE]

(***************************************************************************)
(* BaseExpr.__init__: nullable = self._is_nullable(kwargs, nullable), then *)
(* the fields are stored.  A failing inference leaves no node.             *)
(***************************************************************************)
BaseExpr__init__ ==
    /\ nres = Unbuilt
    /\ nkind # "FuncCall"
    /\ nres' = _is_nullable(nkind, nkwargs, nexplicit)
    /\ UNCHANGED <<nkind, nexplicit, nkwargs, null_safe>>
    /\ UNCHANGED notNullVars

\* A plausible slip: null_safe is looked at even when nullable= is given.
FuncCall_nullable_ignores_explicit(kw, nullable, safe) ==
    IF ~safe THEN Ok(TRUE) ELSE _is_nullable("FuncCall", kw, nullable)

(***************************************************************************)
(* FuncCall.__init__: without nullable= and without null_safe the node is  *)
(* nullable; otherwise BaseExpr.__init__ decides, null_safe not being one  *)
(* of the keyword arguments it sees.                                       *)
(***************************************************************************)
FuncCall_nullable(kw, nullable, safe) ==
    IF nullable = NoneB /\ ~safe
    THEN _is_nullable("FuncCall", kw, SomeB(TRUE))
    ELSE _is_nullable("FuncCall", kw, nullable)

FuncCall__init__ ==
    /\ nres = Unbuilt
    /\ nkind = "FuncCall"
    /\ nres' = FuncCall_nullable(nkwargs, nexplicit, null_safe)
    /\ UNCHANGED <<nkind, nexplicit, nkwargs, null_safe>>
    /\ UNCHANGED notNullVars

(***************************************************************************)
(* Join assembly.  A range variable is                                     *)
(*   [cls, nullable, larg, joins]                                          *)
(* with larg = 0 and joins = <<>> for a non-join range variable.           *)
(***************************************************************************)
NoneS == "None"
BaseRvars ==
    << [cls |-> "RelRangeVar", nullable |-> FALSE, larg |-> 0, joins |-> <<>>],
       [cls |-> "RelRangeVar", nullable |-> TRUE, larg |-> 0, joins |-> <<>>] >>
\* (type, using_clause, quals) as passed: an inner join with an ON qualifier,
\* a left join with a USING list
JoinArgs == {<<"inner", NoneS, "q1">>, <<"left", "u1", NoneS>>}

\* the USING list u1 holds one non-nullable ColumnRef; q1 is a nullable Expr
UsingArg(u) == IF u = NoneS THEN NoneV ELSE ListOf(<<Child(FALSE)>>)
QualsArg(quals) == IF quals = NoneS THEN NoneV ELSE Child(TRUE)

\* isinstance(larg, JoinExpr)
IsJoin(rv, id) == rv[id].cls = "JoinExpr"

\* JoinClause(type=type, rarg=rarg, using_clause=using_clause, quals=quals)
NewJoinClause(rv, type, rarg, using_clause, quals) ==
    [type |-> type, rarg |-> rarg, using_clause |-> using_clause, quals |-> quals,
     nullable |-> _infer_nullability(
        << [name |-> "type", val |-> Scalar],
           [name |-> "rarg", val |-> Child(rv[rarg].nullable)],
           [name |-> "using_clause", val |-> UsingArg(using_clause)],
           [name |-> "quals", val |-> QualsArg(quals)] >>)]

\* JoinExpr(larg=larg, joins=[clause])
NewJoinExpr(rv, larg, clause) ==
    [cls |-> "JoinExpr", larg |-> larg, joins |-> <<clause>>,
     nullable |-> _infer_nullability(
        << [name |-> "larg", val |-> Child(rv[larg].nullable)],
           [name |-> "joins", val |-> ListOf(<<Child(clause.nullable)>>)] >>)]

\* The calls made so far, over all chains.
RECURSIVE TotalCalls(_)
TotalCalls(log) ==
    IF log = <<>> THEN 0 ELSE Len(Head(log).calls) + TotalCalls(Tail(log))

\* The record of a call, as the caller made it.
CallRec(larg, type, rarg, using_clause, quals) ==
    [larg |-> larg, type |-> type, rarg |-> rarg,
     using_clause |-> using_clause, quals |-> quals]

(***************************************************************************)
(* jlog follows each chain of calls: a call on a non-join larg opens a     *)
(* chain on that base; a call whose larg is the result of the chain's last *)
(* call continues it.                                                      *)
(***************************************************************************)
LogCall(log, rv, call, ret) ==
    IF IsJoin(rv, call.larg)
    THEN [c \in 1..Len(log) |->
            IF log[c].cur = call.larg
            THEN [log[c] EXCEPT !.cur = ret, !.calls = Append(@, call)]
            ELSE log[c]]
    ELSE Append(log, [base |-> call.larg, cur |-> ret, calls |-> <<call>>])

\* A plausible slip: the join is always wrapped, never extended in place.
make_inplace_always_wrap(larg, type, rarg, using_clause, quals) ==
    LET clause == NewJoinClause(rvars, type, rarg, using_clause, quals)
        call == CallRec(larg, type, rarg, using_clause, quals)
    IN  /\ TotalCalls(jlog) < MaxCalls
        /\ rvars' = Append(rvars, NewJoinExpr(rvars, larg, clause))
        /\ jret' = Len(rvars) + 1
        /\ jcall' = call
        /\ jlog' = LogCall(jlog, rvars, call, jret')
        /\ UNCHANGED notJoinVars

\* A plausible slip: a new join shares and extends the clause list of larg.
make_inplace_touch_larg(larg, type, rarg, using_clause, quals) ==
    LET clause == NewJoinClause(rvars, type, rarg, using_clause, quals)
        call == CallRec(larg, type, rarg, using_clause, quals)
    IN  /\ TotalCalls(jlog) < MaxCalls
        /\ IF IsJoin(rvars, larg)
           THEN /\ rvars' = [rvars EXCEPT ![larg].joins = Append(@, clause)]
                /\ jret' = larg
           ELSE /\ rvars' = Append([rvars EXCEPT ![larg].joins = Append(@, clause)],
                                   NewJoinExpr(rvars, larg, clause))
                /\ jret' = Len(rvars) + 1
        /\ jcall' = call
        /\ jlog' = LogCall(jlog, rvars, call, jret')
        /\ UNCHANGED notJoinVars

(***************************************************************************)
(* JoinExpr.make_inplace(larg, type, rarg, using_clause, quals)            *)
(***************************************************************************)
make_inplace(larg, type, rarg, using_clause, quals) ==
    LET clause == NewJoinClause(rvars, type, rarg, using_clause, quals)
        call == CallRec(larg, type, rarg, using_clause, quals)
    IN  /\ TotalCalls(jlog) < MaxCalls
        /\ IF IsJoin(rvars, larg)
           THEN /\ rvars' = [rvars EXCEPT ![larg].joins = Append(@, clause)]
                /\ jret' = larg
           ELSE /\ rvars' = Append(rvars, NewJoinExpr(rvars, larg, clause))
                /\ jret' = Len(rvars) + 1
        /\ jcall' = call
        /\ jlog' = LogCall(jlog, rvars, call, jret')
        /\ UNCHANGED notJoinVars


(***************************************************************************)
(* Path tracking.  A dict is a set of <<key, value>> pairs with one pair   *)
(* per key; a key is <<path id, aspect>>; a value is a reference to an     *)
(* OutputVar (path outputs) or a PathRangeVar (range-variable maps).       *)
(***************************************************************************)
PathIds == {"P1"}
Aspects == {"VALUE", "IDENTITY"}
Keys == PathIds \X Aspects
\* the flavors callers pass: the two the code knows, and one it does not
Flavors == {"normal", "packed", "Packed"}
Families == {"outputs", "rvars"}
ValuesOf(fam) == IF fam = "outputs" THEN {"R1", "R2"} ELSE {"V1", "V2"}

EmptyDict == {}
\* key in d
HasKey(d, k) == \E e \in d : e[1] = k
\* d.get(k): the value, or None
DictGet(d, k) == IF HasKey(d, k) THEN (CHOOSE e \in d : e[1] = k)[2] ELSE NoneS
\* d[k] = v
DictPut(d, k, v) == {e \in d : e[1] # k} \cup {<<k, v>>}
\* del d[k]
DictDel(d, k) == {e \in d : e[1] # k}

\* What an accessor call leaves: the node, the heap, the returned map id
\* (0 = None) and "ok" or the exception raised.
Returned(qq, mm, ret) == [q |-> qq, maps |-> mm, ret |-> ret, err |-> "ok"]
Raised(qq, mm, e) == [q |-> qq, maps |-> mm, ret |-> 0, err |-> e]

\* A plausible slip: the packed flavor is served from the normal map.
get_path_outputs_shared(qq, mm, flavor) ==
    IF flavor = "packed" \/ flavor = "normal"
    THEN Returned(qq, mm, qq.path_outputs)
    ELSE Raised(qq, mm, "AssertionError")

\* A plausible slip: any flavor that is not 'normal' is taken as packed.
get_path_outputs_lax(qq, mm, flavor) ==
    IF flavor = "normal" THEN Returned(qq, mm, qq.path_outputs)
    ELSE IF qq.packed_path_outputs = 0
    THEN Returned([qq EXCEPT !.packed_path_outputs = Len(mm) + 1],
                  Append(mm, EmptyDict), Len(mm) + 1)
    ELSE Returned(qq, mm, qq.packed_path_outputs)

\* A plausible slip: an absent packed map is reported by raising.
get_path_outputs_strict(qq, mm, flavor) ==
    IF flavor = "packed"
    THEN IF qq.packed_path_outputs = 0 THEN Raised(qq, mm, "KeyError")
         ELSE Returned(qq, mm, qq.packed_path_outputs)
    ELSE IF flavor = "normal" THEN Returned(qq, mm, qq.path_outputs)
    ELSE Raised(qq, mm, "AssertionError")

\* A plausible slip: the packed map is tested for truth, not for None, so an
\* empty packed map is replaced by a new one.
get_path_outputs_falsy(qq, mm, flavor) ==
    IF flavor = "packed"
    THEN IF qq.packed_path_outputs = 0 \/ mm[qq.packed_path_outputs] = EmptyDict
         THEN Returned([qq EXCEPT !.packed_path_outputs = Len(mm) + 1],
                       Append(mm, EmptyDict), Len(mm) + 1)
         ELSE Returned(qq, mm, qq.packed_path_outputs)
    ELSE IF flavor = "normal" THEN Returned(qq, mm, qq.path_outputs)
    ELSE Raised(qq, mm, "AssertionError")

(***************************************************************************)
(* EdgeQLPathInfo.get_path_outputs(flavor)                                 *)
(***************************************************************************)
get_path_outputs(qq, mm, flavor) ==
    IF flavor = "packed"
    THEN IF qq.packed_path_outputs = 0
         THEN Returned([qq EXCEPT !.packed_path_outputs = Len(mm) + 1],
                       Append(mm, EmptyDict), Len(mm) + 1)
         ELSE Returned(qq, mm, qq.packed_path_outputs)
    ELSE IF flavor = "normal" THEN Returned(qq, mm, qq.path_outputs)
    ELSE Raised(qq, mm, "AssertionError")

(***************************************************************************)
(* Query.get_rvar_map(flavor)                                              *)
(***************************************************************************)
get_rvar_map(qq, mm, flavor) ==
    IF flavor = "packed"
    THEN IF qq.path_packed_rvar_map = 0
         THEN Returned([qq EXCEPT !.path_packed_rvar_map = Len(mm) + 1],
                       Append(mm, EmptyDict), Len(mm) + 1)
         ELSE Returned(qq, mm, qq.path_packed_rvar_map)
    ELSE IF flavor = "normal" THEN Returned(qq, mm, qq.path_rvar_map)
    ELSE Raised(qq, mm, "AssertionError")

\* A plausible slip: the packed map is created when absent, as get_rvar_map
\* does.
maybe_get_rvar_map_creating(qq, mm, flavor) ==
    IF flavor = "packed"
    THEN IF qq.path_packed_rvar_map = 0
         THEN Returned([qq EXCEPT !.path_packed_rvar_map = Len(mm) + 1],
                       Append(mm, EmptyDict), Len(mm) + 1)
         ELSE Returned(qq, mm, qq.path_packed_rvar_map)
    ELSE IF flavor = "normal" THEN Returned(qq, mm, qq.path_rvar_map)
    ELSE Raised(qq, mm, "AssertionError")

(***************************************************************************)
(* Query.maybe_get_rvar_map(flavor)                                        *)
(***************************************************************************)
maybe_get_rvar_map(qq, mm, flavor) ==
    IF flavor = "packed" THEN Returned(qq, mm, qq.path_packed_rvar_map)
    ELSE IF flavor = "normal" THEN Returned(qq, mm, qq.path_rvar_map)
    ELSE Raised(qq, mm, "AssertionError")

\* The accessor the claim describes: get_path_outputs over the namespace maps.
get_namespace_analogous(qq, mm, flavor) ==
    IF flavor = "packed"
    THEN IF qq.packed_path_namespace = 0
         THEN Returned([qq EXCEPT !.packed_path_namespace = Len(mm) + 1],
                       Append(mm, EmptyDict), Len(mm) + 1)
         ELSE Returned(qq, mm, qq.packed_path_namespace)
    ELSE IF flavor = "normal" THEN Returned(qq, mm, qq.path_namespace)
    ELSE Raised(qq, mm, "AssertionError")

(***************************************************************************)
(* node.get_namespace(flavor): EdgeQLPathInfo, BaseRelation, ReturningQuery *)
(* and Query define path_namespace and packed_path_namespace as plain       *)
(* fields and no method of that name, so the attribute lookup fails before  *)
(* the flavor is looked at.                                                 *)
(***************************************************************************)
get_namespace(qq, mm, flavor) == Raised(qq, mm, "AttributeError")

\* the accessors that create a packed map when there is none
Creators == {"get_path_outputs", "get_rvar_map"}

\* A caller's call of an accessor: the returned reference is kept, with the
\* flavor it was asked for.
Call(name, fam, flavor, r) ==
    /\ q' = r.q
    /\ maps' = r.maps
    /\ pret' = r.ret
    /\ perr' = r.err
    /\ pop' = [name |-> name, flavor |-> flavor]
    /\ handles' = IF r.err = "ok" /\ r.ret # 0
                  THEN handles \cup {[fam |-> fam, flavor |-> flavor, map |-> r.ret]}
                  ELSE handles
    /\ pcalled' = IF r.err = "ok" /\ flavor = "packed" /\ name \in Creators
                  THEN pcalled \cup {name} ELSE pcalled
    /\ UNCHANGED <<shadow, nwrites, psupplied>>
    /\ UNCHANGED notPathVars

GetPathOutputs(flavor) ==
    Call("get_path_outputs", "outputs", flavor, get_path_outputs(q, maps, flavor))
GetRvarMap(flavor) ==
    Call("get_rvar_map", "rvars", flavor, get_rvar_map(q, maps, flavor))
MaybeGetRvarMap(flavor) ==
    Call("maybe_get_rvar_map", "rvars", flavor, maybe_get_rvar_map(q, maps, flavor))
GetNamespace(flavor) ==
    Call("get_namespace", "namespace", flavor, get_namespace(q, maps, flavor))

\* the bonds a compiler pass can record for the paths of the model
Bonds == PathIds \X BOOLEAN

\* A plausible slip: writing an output also records a bond for its path.
SetItem_derive_bonds(h, key, val) ==
    /\ nwrites < MaxWrites
    /\ maps' = [maps EXCEPT ![h.map] = DictPut(@, key, val)]
    /\ shadow' = [shadow EXCEPT ![<<h.fam, h.flavor>>] = DictPut(@, key, val)]
    /\ pop' = [name |-> "setitem", flavor |-> h.flavor]
    /\ pret' = h.map
    /\ perr' = "ok"
    /\ nwrites' = nwrites + 1
    /\ q' = [q EXCEPT !.path_bonds = @ \cup {<<key[1], FALSE>>}]
    /\ UNCHANGED <<handles, pcalled, psupplied>>
    /\ UNCHANGED notPathVars

\* m[key] = val through a reference h the caller holds
SetItem(h, key, val) ==
    /\ nwrites < MaxWrites
    /\ maps' = [maps EXCEPT ![h.map] = DictPut(@, key, val)]
    /\ shadow' = [shadow EXCEPT ![<<h.fam, h.flavor>>] = DictPut(@, key, val)]
    /\ pop' = [name |-> "setitem", flavor |-> h.flavor]
    /\ pret' = h.map
    /\ perr' = "ok"
    /\ nwrites' = nwrites + 1
    /\ UNCHANGED <<q, handles, pcalled, psupplied>>
    /\ UNCHANGED notPathVars

\* del m[key] through a reference h the caller holds; KeyError when absent
DelItem(h, key) ==
    /\ nwrites < MaxWrites
    /\ IF HasKey(maps[h.map], key)
       THEN /\ maps' = [maps EXCEPT ![h.map] = DictDel(@, key)]
            /\ shadow' = [shadow EXCEPT ![<<h.fam, h.flavor>>] = DictDel(@, key)]
            /\ perr' = "ok"
       ELSE /\ UNCHANGED <<maps, shadow>>
            /\ perr' = "KeyError"
    /\ pop' = [name |-> "delitem", flavor |-> h.flavor]
    /\ pret' = h.map
    /\ nwrites' = nwrites + 1
    /\ UNCHANGED <<q, handles, pcalled, psupplied>>
    /\ UNCHANGED notPathVars

\* node.path_namespace[key] = val: the namespace map is reached through the
\* field, there being no accessor for it
SetNamespaceItem(key, val) ==
    /\ nwrites < MaxWrites
    /\ maps' = [maps EXCEPT ![q.path_namespace] = DictPut(@, key, val)]
    /\ pop' = [name |-> "setnamespace", flavor |-> "normal"]
    /\ pret' = q.path_namespace
    /\ perr' = "ok"
    /\ nwrites' = nwrites + 1
    /\ UNCHANGED <<q, handles, shadow, pcalled, psupplied>>
    /\ UNCHANGED notPathVars

\* node.path_bonds.add(b)
AddPathBond(b) ==
    /\ q' = [q EXCEPT !.path_bonds = @ \cup {b}]
    /\ pop' = [name |-> "add_bond", flavor |-> NoneS]
    /\ pret' = 0
    /\ perr' = "ok"
    /\ UNCHANGED <<maps, handles, shadow, nwrites, pcalled, psupplied>>
    /\ UNCHANGED notPathVars

\* node.path_bonds.discard(b)
DiscardPathBond(b) ==
    /\ q' = [q EXCEPT !.path_bonds = @ \ {b}]
    /\ pop' = [name |-> "discard_bond", flavor |-> NoneS]
    /\ pret' = 0
    /\ perr' = "ok"
    /\ UNCHANGED <<maps, handles, shadow, nwrites, pcalled, psupplied>>
    /\ UNCHANGED notPathVars

(***************************************************************************)
(* Query.append_cte(cte).  Optional[list]: None is <<>>, a list l is <<l>>. *)
(***************************************************************************)
NoneL == <<>>
SomeL(l) == <<l>>
CteIds == {"C1", "C2", "C3"}

\* A plausible slip: a CTE already in the list is not appended again.
append_cte_dedup(cs, cte) ==
    LET l == IF cs = NoneL THEN <<>> ELSE cs[1]
    IN  IF \E i \in 1..Len(l) : l[i] = cte THEN SomeL(l) ELSE SomeL(Append(l, cte))

append_cte(cs, cte) ==
    LET l == IF cs = NoneL THEN <<>> ELSE cs[1]
    IN  SomeL(Append(l, cte))

AppendCte(cte) ==
    /\ Len(cteLog) < MaxCtes
    /\ ctes' = append_cte(ctes, cte)
    /\ cteLog' = Append(cteLog, cte)
    /\ UNCHANGED cteInit
    /\ UNCHANGED notCteVars

(***************************************************************************)
(* DML statements.  A node is [cls, returning_list], returning_list being  *)
(* the id of a list object in the heap rlists; a list holds ResTarget      *)
(* names.                                                                  *)
(***************************************************************************)
DmlClasses == {"InsertStmt", "UpdateStmt", "DeleteStmt"}
ResTargets == {"t1", "t2"}

\* A plausible slip: target_list hands out a copy of the returning list.
target_list_copy(node, heap) ==
    [heap |-> Append(heap, heap[node.returning_list]), ret |-> Len(heap) + 1]

\* DMLQuery.target_list (a property): return self.returning_list
target_list(node, heap) ==
    [heap |-> heap, ret |-> node.returning_list]

\* a caller evaluates node.target_list and keeps the reference
ReadTargetList ==
    LET r == target_list(dml, rlists)
    IN  /\ rlists' = r.heap
        /\ dret' = r.ret
        /\ dheld' = dheld \cup {r.ret}
        /\ dop' = "target_list"
        /\ UNCHANGED dml
        /\ UNCHANGED notDmlVars

\* the references to list objects a caller can write through: the
\* returning_list field and what target_list gave earlier
ListRefs == {dml.returning_list} \cup dheld

\* l.append(t), l being a list reference
ListAppend(l, t) ==
    /\ Len(rlists[l]) < MaxReturning
    /\ rlists' = [rlists EXCEPT ![l] = Append(@, t)]
    /\ dop' = "append"
    /\ UNCHANGED <<dml, dret, dheld>>
    /\ UNCHANGED notDmlVars

\* del l[i], l being a list reference
ListRemove(l, i) ==
    /\ i \in 1..Len(rlists[l])
    /\ rlists' = [rlists EXCEPT ![l] =
                     [j \in 1..(Len(@) - 1) |-> IF j < i THEN @[j] ELSE @[j + 1]]]
    /\ dop' = "remove"
    /\ UNCHANGED <<dml, dret, dheld>>
    /\ UNCHANGED notDmlVars

\* node.returning_list = [t, ...]: the field is given a new list object
SetReturningList(items) ==
    /\ Len(rlists) < MaxLists
    /\ rlists' = Append(rlists, items)
    /\ dml' = [dml EXCEPT !.returning_list = Len(rlists) + 1]
    /\ dop' = "assign"
    /\ UNCHANGED <<dret, dheld>>
    /\ UNCHANGED notDmlVars

(***************************************************************************)
(* Range variables and query.  The heap holds, at fixed ids,               *)
(*   1 a Relation, 2 and 3 two SelectStmt queries, 4 a CommonTableExpr,    *)
(*   5 a RelRangeVar, 6 a RangeSubselect, 7 an IntersectionRangeVar,       *)
(*   8 a DynamicRangeVar, 9 a PathRangeVar.                                *)
(* A field that a class does not have is 0 (or the empty list).            *)
(***************************************************************************)
RelationClasses == {"Relation", "SelectStmt"}
Obj(cls, relation, query, subquery, component_rvars) ==
    [cls |-> cls, relation |-> relation, query |-> query,
     subquery |-> subquery, component_rvars |-> component_rvars]
RvHeap(relation, ctequery, subquery, components) ==
    << Obj("Relation", 0, 0, 0, <<>>),
       Obj("SelectStmt", 0, 0, 0, <<>>),
       Obj("SelectStmt", 0, 0, 0, <<>>),
       Obj("CommonTableExpr", 0, ctequery, 0, <<>>),
       Obj("RelRangeVar", relation, 0, 0, <<>>),
       Obj("RangeSubselect", 0, 0, subquery, <<>>),
       Obj("IntersectionRangeVar", 0, 0, 0, components),
       Obj("DynamicRangeVar", 0, 0, 0, <<>>),
       Obj("PathRangeVar", 0, 0, 0, <<>>) >>
QueryIds == {2, 3}
CteId == 4
RangeVarIds == 5..9

\* The outcome of reading a property: the heap after it, and the value
\* returned or the exception raised.
QReturn(h, ret) == [heap |-> h, err |-> "ok", ret |-> ret]
QRaise(h, e) == [heap |-> h, err |-> e, ret |-> 0]

\* A plausible slip: a CTE reference answers with the CTE itself.
query_no_deref(h, rv) ==
    CASE h[rv].cls = "RelRangeVar" -> QReturn(h, h[rv].relation)
      [] h[rv].cls = "RangeSubselect" -> QReturn(h, h[rv].subquery)
      [] h[rv].cls = "DynamicRangeVar" -> QRaise(h, "AssertionError")
      [] OTHER -> QRaise(h, "NotImplementedError")

\* A plausible slip: the abstract property raises what the dynamic one does.
query_all_assert(h, rv) ==
    CASE h[rv].cls = "RelRangeVar" ->
            IF h[h[rv].relation].cls = "CommonTableExpr"
            THEN QReturn(h, h[h[rv].relation].query)
            ELSE QReturn(h, h[rv].relation)
      [] h[rv].cls = "RangeSubselect" -> QReturn(h, h[rv].subquery)
      [] OTHER -> QRaise(h, "AssertionError")

(***************************************************************************)
(* The query property, by class of the range variable:                     *)
(*   RelRangeVar.query     the CTE's query when relation is a CTE, else    *)
(*                         the relation                                    *)
(*   RangeSubselect.query  the subquery                                    *)
(*   DynamicRangeVar.query raise AssertionError                            *)
(*   PathRangeVar.query    raise NotImplementedError; it is what an        *)
(*                         IntersectionRangeVar inherits                   *)
(***************************************************************************)
query(h, rv) ==
    CASE h[rv].cls = "RelRangeVar" ->
            IF h[h[rv].relation].cls = "CommonTableExpr"
            THEN QReturn(h, h[h[rv].relation].query)
            ELSE QReturn(h, h[rv].relation)
      [] h[rv].cls = "RangeSubselect" -> QReturn(h, h[rv].subquery)
      [] h[rv].cls = "DynamicRangeVar" -> QRaise(h, "AssertionError")
      [] h[rv].cls \in {"PathRangeVar", "IntersectionRangeVar"} ->
            QRaise(h, "NotImplementedError")

\* a caller reads rv.query
ReadQuery(rv) ==
    LET r == query(rheap, rv)
    IN  /\ rheap' = r.heap
        /\ qrv' = rv
        /\ qres' = [err |-> r.err, ret |-> r.ret]
        /\ UNCHANGED notRvVars

NoRead == [err |-> "none", ret |-> 0]

\* cte.query = qq: a CommonTableExpr is a mutable node.  What was read
\* before the assignment is no longer the answer of the heap as it is.
SetCteQuery(qq) ==
    /\ rheap[CteId].query # qq
    /\ rheap' = [rheap EXCEPT ![CteId].query = qq]
    /\ qrv' = 0
    /\ qres' = NoRead
    /\ UNCHANGED notRvVars

(***************************************************************************)
(* Nodes after construction.  A node is [cls, nullable, kids]: nullable is *)
(* the field BaseExpr.__init__ stored, kids the ids of the child nodes it  *)
(* was built over.                                                         *)
(*   Relation()                    a mutable leaf, no class default        *)
(*   SelectStmt()                  a mutable leaf, nullable by default     *)
(*   RelRangeVar(relation=r)       r a Relation or a SelectStmt            *)
(*   Expr(lexpr=a, rexpr=b)        a, b any nodes                          *)
(***************************************************************************)
LeafKinds == {"Relation", "SelectStmt"}
ParentKinds == {"RelRangeVar", "Expr"}
FieldOrder(cls) ==
    CASE cls = "RelRangeVar" -> <<"relation">>
      [] cls = "Expr" -> <<"lexpr", "rexpr">>
      [] OTHER -> <<>>
\* the children a node of class cls can be built over, given the heap h
KidsOf(cls, h) ==
    CASE cls = "RelRangeVar" -> {<<c>> : c \in {i \in 1..Len(h) : h[i].cls \in LeafKinds}}
      [] cls = "Expr" -> (1..Len(h)) \X (1..Len(h))
      [] OTHER -> {<<>>}
\* the keyword arguments of the constructor call, children as they are now
NodeKwargs(cls, kids, h) ==
    [i \in 1..Len(kids) |->
        [name |-> FieldOrder(cls)[i], val |-> Child(h[kids[i]].nullable)]]

\* cls(nullable=explicit, **kwargs): BaseExpr.__init__ stores the outcome
\* of _is_nullable in the new node
BuildNode(cls, explicit, kids) ==
    LET r == _is_nullable(cls, NodeKwargs(cls, kids, nodes), explicit)
    IN  /\ Len(nodes) < MaxNodes
        /\ kids \in KidsOf(cls, nodes)
        /\ r.err = "ok"
        /\ nodes' = Append(nodes, [cls |-> cls, nullable |-> r.val, kids |-> kids])
        /\ nstored' = Append(nstored, r.val)
        /\ UNCHANGED notNodeVars

\* A plausible slip: assigning a child's nullable re-infers its parents.
SetNullable_reinfer(i, b) ==
    LET h == [nodes EXCEPT ![i].nullable = b]
    IN  /\ nodes[i].cls \in LeafKinds
        /\ nodes[i].nullable # b
        /\ nodes' = [j \in 1..Len(h) |->
                        IF h[j].cls \in ParentKinds /\ \E k \in 1..Len(h[j].kids) : h[j].kids[k] = i
                        THEN [h[j] EXCEPT !.nullable =
                                _infer_nullability(NodeKwargs(h[j].cls, h[j].kids, h))]
                        ELSE h[j]]
        /\ nstored' = [nstored EXCEPT ![i] = b]
        /\ UNCHANGED notNodeVars

\* node.nullable = b on a mutable node (a relation or a query): a plain
\* field assignment
SetNullable(i, b) ==
    /\ nodes[i].cls \in LeafKinds
    /\ nodes[i].nullable # b
    /\ nodes' = [nodes EXCEPT ![i].nullable = b]
    /\ nstored' = [nstored EXCEPT ![i] = b]
    /\ UNCHANGED notNodeVars

(***************************************************************************)
(* LRUMapping (edb/common/lru.py).  The OrderedDict _dict is the sequence  *)
(* of its items [k, v], the first being the one popitem(last=False)        *)
(* removes and the last the one move_to_end(key, last=True) makes.         *)
(***************************************************************************)
LKeys == {"a", "b", "c"}
LVals == {"x", "y"}
NoKey == "-"

KeysOf(d) == {d[i].k : i \in 1..Len(d)}
IndexOf(d, key) == CHOOSE i \in 1..Len(d) : d[i].k = key
ValueOf(d, key) == d[IndexOf(d, key)].v
\* del d[key]
Without(d, key) ==
    LET i == IndexOf(d, key)
    IN  [j \in 1..(Len(d) - 1) |-> IF j < i THEN d[j] ELSE d[j + 1]]
\* d.move_to_end(key, last=True)
move_to_end(d, key) == Append(Without(d, key), d[IndexOf(d, key)])
\* d[key] = o: an existing key keeps its place, a new one goes last
dict_setitem(d, key, o) ==
    IF key \in KeysOf(d)
    THEN [d EXCEPT ![IndexOf(d, key)].v = o]
    ELSE Append(d, [k |-> key, v |-> o])
\* d.popitem(last=False)
popitem_first(d) == Tail(d)

\* The outcome of a method: the _dict after it, the exception, the result.
LOk(d, ret) == [d |-> d, err |-> "ok", ret |-> ret]
LRaise(d, e) == [d |-> d, err |-> e, ret |-> NoKey]

\* A plausible slip: a read does not move the entry.
getitem_no_move(d, key) ==
    IF key \in KeysOf(d) THEN LOk(d, ValueOf(d, key)) ELSE LRaise(d, "KeyError")

\* LRUMapping.__getitem__
__getitem__(d, key) ==
    IF key \in KeysOf(d)
    THEN LOk(move_to_end(d, key), ValueOf(d, key))
    ELSE LRaise(d, "KeyError")

\* A plausible slip: a new key is stored without looking at the size.
setitem_no_evict(d, maxsize, key, o) ==
    IF key \in KeysOf(d)
    THEN LOk(move_to_end(dict_setitem(d, key, o), key), NoKey)
    ELSE LOk(dict_setitem(d, key, o), NoKey)

\* A plausible slip: an overwrite leaves the entry where it was.
setitem_no_touch(d, maxsize, key, o) ==
    IF key \in KeysOf(d)
    THEN LOk(dict_setitem(d, key, o), NoKey)
    ELSE LET d1 == dict_setitem(d, key, o)
         IN  IF Len(d1) > maxsize THEN LOk(popitem_first(d1), NoKey)
             ELSE LOk(d1, NoKey)

\* LRUMapping.__setitem__
__setitem__(d, maxsize, key, o) ==
    IF key \in KeysOf(d)
    THEN LOk(move_to_end(dict_setitem(d, key, o), key), NoKey)
    ELSE LET d1 == dict_setitem(d, key, o)
         IN  IF Len(d1) > maxsize THEN LOk(popitem_first(d1), NoKey)
             ELSE LOk(d1, NoKey)

\* LRUMapping.__delitem__
__delitem__(d, key) ==
    IF key \in KeysOf(d) THEN LOk(Without(d, key), NoKey) ELSE LRaise(d, "KeyError")

\* LRUMapping.__contains__
__contains__(d, key) == LOk(d, key \in KeysOf(d))

\* the keys of d in the order of the dict
KeySeq(d) == [i \in 1..Len(d) |-> d[i].k]

\* LRUMapping.__len__
__len__(d) == LOk(d, Len(d))

\* LRUMapping.__iter__, run to its end: the keys in the order of the dict
__iter__(d) == LOk(d, KeySeq(d))

\* the keys of t other than key, then key as the most recent
Touch(t, key) == Append(SelectSeq(t, LAMBDA x : x # key), key)
\* the recency order after a method turned the keys into those of d;
\* touched tells whether key itself was touched
Recency(t, d, key, touched) ==
    LET kept == SelectSeq(t, LAMBDA x : x \in KeysOf(d))
    IN  IF touched /\ key \in KeysOf(d) THEN Touch(kept, key) ELSE kept

\* LRUMapping(maxsize=lmaxsize)
LRUMapping__init__ ==
    /\ ~lru.built
    /\ lop.name = "none"
    /\ IF lmaxsize <= 0
       THEN /\ lop' = [name |-> "__init__", key |-> NoKey, val |-> NoKey,
                        err |-> "ValueError", ret |-> NoKey]
            /\ UNCHANGED lru
       ELSE /\ lop' = [name |-> "__init__", key |-> NoKey, val |-> NoKey,
                        err |-> "ok", ret |-> NoKey]
            /\ lru' = [built |-> TRUE, _dict |-> <<>>, _maxsize |-> lmaxsize]
    /\ UNCHANGED <<lmaxsize, ltouch, levicted, lhad>>
    /\ UNCHANGED notLruVars

\* a method call on the built cache, r being its outcome
LruCall(name, key, val, r, touched) ==
    /\ lru.built
    /\ lru' = [lru EXCEPT !._dict = r.d]
    /\ lop' = [name |-> name, key |-> key, val |-> val, err |-> r.err, ret |-> r.ret]
    /\ ltouch' = Recency(ltouch, r.d, key, touched /\ r.err = "ok")
    /\ levicted' = KeysOf(lru._dict) \ (KeysOf(r.d) \cup {key})
    /\ lhad' = (key \in KeysOf(lru._dict))
    /\ UNCHANGED lmaxsize
    /\ UNCHANGED notLruVars

GetItem(key) == LruCall("__getitem__", key, NoKey, __getitem__(lru._dict, key), TRUE)
SetItemLru(key, o) ==
    LruCall("__setitem__", key, o, __setitem__(lru._dict, lru._maxsize, key, o), TRUE)
LruDelItem(key) == LruCall("__delitem__", key, NoKey, __delitem__(lru._dict, key), FALSE)
Contains(key) == LruCall("__contains__", key, NoKey, __contains__(lru._dict, key), FALSE)
LruLen == LruCall("__len__", NoKey, NoKey, __len__(lru._dict), FALSE)
LruIter == LruCall("__iter__", NoKey, NoKey, __iter__(lru._dict), FALSE)

(***************************************************************************)
(* Iterator CTEs.  A node is [parent, span]: parent is the id of another   *)
(* IteratorCTE or 0 for None; span stands for the one field that           *)
(* ImmutableBase declares mutable.                                         *)
(***************************************************************************)
Spans == {"s0", "s1"}
\* ImmutableBase.__ast_mutable_fields__
ast_mutable_fields == {"span"}

\* A plausible slip: every field of an immutable node can be assigned.
setattr_unfrozen(h, i, name, value) ==
    [heap |-> [h EXCEPT ![i][name] = value], err |-> "ok"]

\* ast.ImmutableASTMixin: an assignment to a field of a built node that is
\* not declared mutable is refused
setattr(h, i, name, value) ==
    IF name \in ast_mutable_fields
    THEN [heap |-> [h EXCEPT ![i][name] = value], err |-> "ok"]
    ELSE [heap |-> h, err |-> "TypeError"]

\* IteratorCTE(path_id=..., cte=..., parent=parent): parent is None or a
\* node that exists when the call is made
NewIteratorCTE(parent) ==
    /\ Len(iters) < MaxIters
    /\ parent \in 0..Len(iters)
    /\ iters' = Append(iters, [parent |-> parent, span |-> "s0"])
    /\ iop' = [name |-> "new", id |-> Len(iters) + 1, err |-> "ok"]
    /\ UNCHANGED notIterVars

\* node.<name> = value on a built node
SetAttr(i, name, value) ==
    LET r == setattr(iters, i, name, value)
    IN  /\ iters' = r.heap
        /\ iop' = [name |-> name, id |-> i, err |-> r.err]
        /\ UNCHANGED notIterVars

(***************************************************************************)
(* Initial states and specifications.                                      *)
(***************************************************************************)
NoCall == CallRec(0, NoneS, 0, NoneS, NoneS)
JoinIdle ==
    /\ rvars = BaseRvars
    /\ jcall = NoCall
    /\ jret = 0
    /\ jlog = <<>>
NullIdle ==
    /\ nkind = "Expr"
    /\ nexplicit = NoneB
    /\ nkwargs = <<>>
    /\ nres = Unbuilt
    /\ null_safe = FALSE

\* A query node as its constructor leaves it: path_outputs, path_namespace
\* and path_rvar_map are three new dicts (ast.field(factory=dict)); each of
\* packed_path_outputs (po) and path_packed_rvar_map (pr) is None unless a
\* dict was passed for it (NoneL, or SomeL(dict)); the path bonds are those
\* passed.
NewQueryWith(bonds, po, pr) ==
    [path_outputs |-> 1, packed_path_outputs |-> IF po = NoneL THEN 0 ELSE 4,
     path_namespace |-> 2, packed_path_namespace |-> 0,
     path_rvar_map |-> 3,
     path_packed_rvar_map |-> IF pr = NoneL THEN 0 ELSE 4 + Len(po),
     path_bonds |-> bonds, path_id_mask |-> {}]
NewQuery(bonds) == NewQueryWith(bonds, NoneL, NoneL)
PathInitWith(bonds, po, pr) ==
    /\ q = NewQueryWith(bonds, po, pr)
    /\ maps = <<EmptyDict, EmptyDict, EmptyDict>> \o po \o pr
    /\ handles = {}
    /\ shadow = [fk \in Families \X {"normal", "packed"} |->
                    IF fk = <<"outputs", "packed">> /\ po # NoneL THEN po[1]
                    ELSE IF fk = <<"rvars", "packed">> /\ pr # NoneL THEN pr[1]
                    ELSE EmptyDict]
    /\ pop = [name |-> "init", flavor |-> NoneS]
    /\ pret = 0
    /\ perr = "ok"
    /\ nwrites = 0
    /\ pcalled = {}
    /\ psupplied = {f \in {"packed_path_outputs"} : po # NoneL}
                       \cup {f \in {"path_packed_rvar_map"} : pr # NoneL}
PathInit(bonds) == PathInitWith(bonds, NoneL, NoneL)
PathIdle == PathInit({})
CteIdle ==
    /\ ctes = NoneL
    /\ cteInit = NoneL
    /\ cteLog = <<>>

\* An INSERT built with no returning_list: the field's factory makes a new
\* empty list.
DmlInit(cls, items) ==
    /\ dml = [cls |-> cls, returning_list |-> 1]
    /\ rlists = <<items>>
    /\ dop = "init"
    /\ dret = 0
    /\ dheld = {}
DmlIdle == DmlInit("InsertStmt", <<>>)

RvInit(relation, ctequery, subquery, components) ==
    /\ rheap = RvHeap(relation, ctequery, subquery, components)
    /\ qrv = 0
    /\ qres = NoRead
RvIdle == RvInit(1, 2, 2, <<5>>)

NodeIdle ==
    /\ nodes = <<>>
    /\ nstored = <<>>

NoOp == [name |-> "none", key |-> NoKey, val |-> NoKey, err |-> "ok", ret |-> NoKey]
LruInit(maxsize) ==
    /\ lru = [built |-> FALSE, _dict |-> <<>>, _maxsize |-> 0]
    /\ lmaxsize = maxsize
    /\ lop = NoOp
    /\ ltouch = <<>>
    /\ levicted = {}
    /\ lhad = FALSE
LruIdle == LruInit(1)

IterIdle ==
    /\ iters = <<>>
    /\ iop = [name |-> "none", id |-> 0, err |-> "ok"]

\* Join assembly over two base range variables.
InitJoin == JoinIdle /\ NullIdle /\ PathIdle /\ CteIdle /\ DmlIdle /\ RvIdle /\ NodeIdle /\ LruIdle /\ IterIdle
NextJoin ==
    \E larg \in 1..Len(rvars), rarg \in 1..Len(rvars), a \in JoinArgs :
        make_inplace(larg, a[1], rarg, a[2], a[3])
SpecJoin == InitJoin /\ [][NextJoin]_vars

\* One constructor call of a value-producing node, over all its arguments.
InitNull ==
    /\ JoinIdle /\ PathIdle /\ CteIdle /\ DmlIdle /\ RvIdle /\ NodeIdle /\ LruIdle /\ IterIdle
    /\ nkind \in NKinds
    /\ nexplicit \in OptBool
    /\ nkwargs \in KwargsOf(nkind)
    /\ nres = Unbuilt
    /\ null_safe \in IF nkind = "FuncCall" THEN BOOLEAN ELSE {FALSE}
NextNull == BaseExpr__init__ \/ FuncCall__init__
SpecNull == InitNull /\ [][NextNull]_vars

\* The flavor accessors of one SELECT node and the writes of its callers.
InitPath ==
    /\ JoinIdle /\ NullIdle /\ CteIdle /\ DmlIdle /\ RvIdle /\ NodeIdle /\ LruIdle /\ IterIdle
    /\ \E bonds \in {{}, {<<"P1", FALSE>>}} : PathInit(bonds)
NextPath ==
    \/ \E flavor \in Flavors : GetPathOutputs(flavor)
    \/ \E flavor \in Flavors : GetRvarMap(flavor)
    \/ \E flavor \in Flavors : MaybeGetRvarMap(flavor)
    \/ \E flavor \in Flavors : GetNamespace(flavor)
    \/ \E h \in handles, key \in Keys : \E val \in ValuesOf(h.fam) : SetItem(h, key, val)
    \/ \E h \in handles, key \in Keys : DelItem(h, key)
SpecPath == InitPath /\ [][NextPath]_vars

\* The same node, with the passes that maintain its path bonds and write
\* its namespace map.
InitBonds == InitPath
NextBonds ==
    \/ NextPath
    \/ \E key \in Keys : SetNamespaceItem(key, "col1")
    \/ \E b \in Bonds : AddPathBond(b)
    \/ \E b \in Bonds : DiscardPathBond(b)
SpecBonds == InitBonds /\ [][NextBonds]_vars

\* The accessors and map writes again, on a SELECT built with or without
\* dicts for its packed maps.
SuppliedDicts(fam) ==
    {NoneL, SomeL(EmptyDict)}
        \cup {SomeL({<<<<"P1", "VALUE">>, v>>}) : v \in {"V1"} \cap ValuesOf(fam)}
InitLazy ==
    /\ JoinIdle /\ NullIdle /\ CteIdle /\ DmlIdle /\ RvIdle /\ NodeIdle /\ LruIdle /\ IterIdle
    /\ \E po \in SuppliedDicts("outputs"), pr \in SuppliedDicts("rvars") :
          PathInitWith({}, po, pr)
NextLazy == NextPath
SpecLazy == InitLazy /\ [][NextLazy]_vars

\* The CTE list of one query, built with ctes absent or with an empty list.
InitCte ==
    /\ JoinIdle /\ NullIdle /\ PathIdle /\ DmlIdle /\ RvIdle /\ NodeIdle /\ LruIdle /\ IterIdle
    /\ ctes \in {NoneL, SomeL(<<>>)}
    /\ cteInit = ctes
    /\ cteLog = <<>>
NextCte == \E cte \in CteIds : AppendCte(cte)
SpecCte == InitCte /\ [][NextCte]_vars

\* One DML node of each class, built without a returning_list or with one
\* of one element, and the reads and writes of its callers.
InitDml ==
    /\ JoinIdle /\ NullIdle /\ PathIdle /\ CteIdle /\ RvIdle /\ NodeIdle /\ LruIdle /\ IterIdle
    /\ \E cls \in DmlClasses, items \in {<<>>, <<"t1">>} : DmlInit(cls, items)
NextDml ==
    \/ ReadTargetList
    \/ \E l \in ListRefs, t \in ResTargets : ListAppend(l, t)
    \/ \E l \in ListRefs, i \in 1..MaxReturning : ListRemove(l, i)
    \/ \E items \in {<<>>, <<"t2">>} : SetReturningList(items)
SpecDml == InitDml /\ [][NextDml]_vars

\* Range variables over every backing: a RelRangeVar on the relation, on a
\* query or on the CTE, a subselect on either query, an intersection of
\* some of them.
InitRv ==
    /\ JoinIdle /\ NullIdle /\ PathIdle /\ CteIdle /\ DmlIdle /\ NodeIdle /\ LruIdle /\ IterIdle
    /\ \E relation \in {1, 2, 3, CteId}, ctequery \in QueryIds, subquery \in QueryIds,
          components \in SeqsUpTo({5, 6}, 1, MaxComponents) :
            RvInit(relation, ctequery, subquery, components)
NextRv ==
    \/ \E rv \in RangeVarIds : ReadQuery(rv)
    \/ \E qq \in QueryIds : SetCteQuery(qq)
SpecRv == InitRv /\ [][NextRv]_vars

\* Nodes built over one another, among the other operations on built
\* nodes: assignments to a child's nullable, one chain of left joins on the
\* first range variable, each appended in place to the join the last call
\* returned, a CTE appended to a query, writes to a query's packed output
\* map.
InitOnce ==
    /\ JoinIdle /\ NullIdle /\ PathIdle /\ CteIdle /\ DmlIdle /\ RvIdle /\ NodeIdle /\ LruIdle /\ IterIdle
NextOnce ==
    \/ \E cls \in LeafKinds, explicit \in OptBool : BuildNode(cls, explicit, <<>>)
    \/ \E cls \in ParentKinds : \E kids \in KidsOf(cls, nodes) : BuildNode(cls, NoneB, kids)
    \/ \E i \in 1..Len(nodes), b \in BOOLEAN : SetNullable(i, b)
    \/ \E rarg \in 1..Len(BaseRvars) :
          make_inplace(IF Len(rvars) = Len(BaseRvars) THEN 1 ELSE Len(rvars),
                       "left", rarg, "u1", NoneS)
    \/ AppendCte("C1")
    \/ GetPathOutputs("packed")
    \/ \E h \in handles : SetItem(h, <<"P1", "VALUE">>, CHOOSE v \in ValuesOf(h.fam) : TRUE)
SpecOnce == InitOnce /\ [][NextOnce]_vars

\* One cache, built with a maxsize from -1 up, and the calls of its users.
InitLru ==
    /\ JoinIdle /\ NullIdle /\ PathIdle /\ CteIdle /\ DmlIdle /\ RvIdle /\ NodeIdle /\ IterIdle
    /\ \E maxsize \in -1..MaxSize : LruInit(maxsize)
NextLru ==
    \/ LRUMapping__init__
    \/ \E key \in LKeys : GetItem(key)
    \/ \E key \in LKeys, o \in LVals : SetItemLru(key, o)
    \/ \E key \in LKeys : LruDelItem(key)
    \/ \E key \in LKeys : Contains(key)
    \/ LruLen
    \/ LruIter
SpecLru == InitLru /\ [][NextLru]_vars

\* Iterator CTEs built one after another, each on None or on a node built
\* before, and the assignments callers try on them.
InitIter ==
    /\ JoinIdle /\ NullIdle /\ PathIdle /\ CteIdle /\ DmlIdle /\ RvIdle /\ NodeIdle /\ LruIdle
    /\ IterIdle
NextIter ==
    \/ \E parent \in 0..MaxIters : NewIteratorCTE(parent)
    \/ \E i \in 1..Len(iters), p \in 0..Len(iters) : SetAttr(i, "parent", p)
    \/ \E i \in 1..Len(iters), sp \in Spans : SetAttr(i, "span", sp)
SpecIter == InitIter /\ [][NextIter]_vars

(***************************************************************************)
(* Properties of join assembly.                                            *)
(***************************************************************************)
\* clause carries the type, rarg, using_clause and quals of call
Carries(clause, call) ==
    /\ clause.type = call.type
    /\ clause.rarg = call.rarg
    /\ clause.using_clause = call.using_clause
    /\ clause.quals = call.quals

\* C1: join flattening.  A chain of N >= 1 make_inplace calls that starts
\* on a non-join base B and passes each result on as the next larg ends in
\* one JoinExpr whose larg is B and whose joins are the N clauses in call
\* order; a call on a join returns that very join, and no join is ever
\* wrapped in another one (there is one join node per chain).
JoinFlattening ==
    /\ \A c \in 1..Len(jlog) :
        LET ch == jlog[c]
            j == rvars[ch.cur]
        IN  /\ j.cls = "JoinExpr"
            /\ j.larg = ch.base
            /\ ~IsJoin(rvars, j.larg)
            /\ Len(j.joins) = Len(ch.calls)
            /\ \A i \in 1..Len(ch.calls) : Carries(j.joins[i], ch.calls[i])
    /\ (jcall.larg # 0 /\ IsJoin(rvars, jcall.larg)) => jret = jcall.larg
    /\ Len(rvars) = Len(BaseRvars) + Len(jlog)

\* A chain of three calls with different arguments has been assembled.
JoinFlatteningWitness ==
    \E c \in 1..Len(jlog) :
        /\ Len(jlog[c].calls) >= 3
        /\ jlog[c].calls[1].type # jlog[c].calls[2].type
        /\ jlog[c].calls[2].rarg # jlog[c].calls[3].rarg
        /\ jret = jcall.larg

\* C2: a call whose larg is not a join allocates a new JoinExpr with that
\* larg and exactly the one new clause, and changes no node that existed
\* before the call (the left operand and every earlier join included).
JoinWrapsNonJoin ==
    [][ (jcall'.larg # 0 /\ ~IsJoin(rvars, jcall'.larg)) =>
            /\ Len(rvars') = Len(rvars) + 1
            /\ jret' = Len(rvars')
            /\ rvars'[jret'].cls = "JoinExpr"
            /\ rvars'[jret'].larg = jcall'.larg
            /\ Len(rvars'[jret'].joins) = 1
            /\ Carries(rvars'[jret'].joins[1], jcall')
            /\ \A i \in 1..Len(rvars) : rvars'[i] = rvars[i] ]_vars

\* A second join has been made over a base while an earlier join with two
\* clauses exists.
JoinWrapsNonJoinWitness ==
    /\ jcall.larg # 0
    /\ ~IsJoin(rvars, jcall.larg)
    /\ jret = Len(rvars)
    /\ Len(rvars[jret].joins) = 1
    /\ \E j \in 1..(Len(rvars) - 1) : IsJoin(rvars, j) /\ Len(rvars[j].joins) = 2

(***************************************************************************)
(* Properties of the CTE list and of the path-tracking maps.               *)
(***************************************************************************)
\* C3: CTE ordering.  On a query built without ctes, the list is absent
\* until the first append_cte call and from then on is exactly the CTEs
\* passed, in call order, repeated ones included.
CteOrdering ==
    cteInit = NoneL =>
        ctes = (IF cteLog = <<>> THEN NoneL ELSE SomeL(cteLog))

\* C1, C2 and C1 again have been appended to a query built without ctes.
CteOrderingWitness ==
    /\ cteInit = NoneL
    /\ Len(cteLog) = 3
    /\ cteLog[1] = cteLog[3]
    /\ cteLog[1] # cteLog[2]
    /\ ctes = SomeL(cteLog)

Accessors == {"get_path_outputs", "get_rvar_map", "maybe_get_rvar_map"}
KnownFlavors == {"normal", "packed"}

\* C4: flavor isolation.  The map a caller got for one flavor holds exactly
\* the entries written through maps got for that flavor, so a write through
\* the packed map never shows in the normal map, nor the other way round;
\* and the maps of the two flavors are different objects.
FlavorIsolation ==
    /\ \A h \in handles : maps[h.map] = shadow[<<h.fam, h.flavor>>]
    /\ \A h1 \in handles, h2 \in handles :
        (h1.fam = h2.fam /\ h1.flavor # h2.flavor) => h1.map # h2.map
    /\ q.path_outputs # q.packed_path_outputs
    /\ q.path_rvar_map # q.path_packed_rvar_map

\* The same key holds R1 in the normal output map and R2 in the packed one.
FlavorIsolationWitness ==
    /\ [fam |-> "outputs", flavor |-> "normal", map |-> q.path_outputs] \in handles
    /\ [fam |-> "outputs", flavor |-> "packed", map |-> q.packed_path_outputs]
          \in handles
    /\ DictGet(maps[q.path_outputs], <<"P1", "VALUE">>) = "R1"
    /\ DictGet(maps[q.packed_path_outputs], <<"P1", "VALUE">>) = "R2"

\* C5: an accessor called with a flavor other than 'normal' or 'packed'
\* raises AssertionError and leaves the node and every map as they were.
UnknownFlavorRejected ==
    [][ (pop'.name \in Accessors /\ pop'.flavor \notin KnownFlavors) =>
            /\ perr' = "AssertionError"
            /\ pret' = 0
            /\ q' = q
            /\ maps' = maps
            /\ handles' = handles ]_vars

\* get_rvar_map('Packed') has just failed on a query that has an entry in
\* its normal range-variable map and no packed range-variable map.
UnknownFlavorRejectedWitness ==
    /\ pop = [name |-> "get_rvar_map", flavor |-> "Packed"]
    /\ perr = "AssertionError"
    /\ q.path_packed_rvar_map = 0
    /\ maps[q.path_rvar_map] # EmptyDict

PathResolution ==
    [][ /\ (pop'.name = "get_path_outputs" /\ pop'.flavor = "normal") =>
            /\ perr' = "ok"
            /\ pret' # 0
            /\ \A e \in shadow[<<"outputs", "normal">>] :
                  DictGet(maps'[pret'], e[1]) = e[2]
        /\ (pop'.name = "get_path_outputs" /\ pop'.flavor = "packed"
              /\ q.packed_path_outputs = 0) =>
            /\ perr' = "ok"
            /\ pret' # 0
            /\ \A k \in Keys : DictGet(maps'[pret'], k) = NoneS
        /\ (pop'.name = "maybe_get_rvar_map" /\ pop'.flavor = "packed"
              /\ q.path_packed_rvar_map = 0) =>
            /\ perr' = "ok"
            /\ pret' = 0 ]_vars

\* The SELECT has the bond (P1, optional = false) and the normal output
\* entry (P1, VALUE) -> R1, and the packed output map has just been asked
\* for and holds nothing.
PathResolutionWitness ==
    /\ q.path_bonds = {<<"P1", FALSE>>}
    /\ DictGet(maps[q.path_outputs], <<"P1", "VALUE">>) = "R1"
    /\ pop = [name |-> "get_path_outputs", flavor |-> "packed"]
    /\ perr = "ok"
    /\ pret = q.packed_path_outputs
    /\ maps[pret] = EmptyDict
    /\ shadow[<<"outputs", "packed">>] = EmptyDict

(***************************************************************************)
(* Properties of the nullability protocol.                                 *)
(***************************************************************************)
\* v is a nullable child node, or a container holding one
NullableArg(v) ==
    \/ v.t = "node" /\ v.hasattr /\ v.nullable
    \/ v.t = "list" /\ \E i \in 1..Len(v.items) :
          v.items[i].t = "node" /\ v.items[i].hasattr /\ v.items[i].nullable
Reverse(kw) == [i \in 1..Len(kw) |-> kw[Len(kw) + 1 - i]]

\* C8: default inference.  A node of a class with no nullable default and
\* no override of its own, built without nullable=, is nullable exactly
\* when some argument is a nullable child or a container holding a nullable
\* child; arguments without a nullable attribute count as non-nullable, and
\* passing the arguments in the opposite order gives the same answer.
DefaultInference ==
    (nkind \in {"Expr", "Indirection"} /\ nexplicit = NoneB /\ nres # Unbuilt) =>
        /\ nres = Ok(\E i \in 1..Len(nkwargs) : NullableArg(nkwargs[i].val))
        /\ nres = _is_nullable(nkind, Reverse(nkwargs), nexplicit)

\* An Indirection was built from a non-nullable arg followed by a list
\* whose second element is the only nullable child, and came out nullable.
DefaultInferenceWitness ==
    /\ nkind = "Indirection"
    /\ nexplicit = NoneB
    /\ Len(nkwargs) = 2
    /\ nkwargs[1].val = Child(FALSE)
    /\ nkwargs[2].val = ListOf(<<PlainChild, Child(TRUE)>>)
    /\ nres = Ok(TRUE)

\* C9: precedence.  An explicit nullable is stored as given; without one, a
\* SelectStmt and a NullConstant are nullable and a VariadicArgument is not,
\* whatever their arguments; only a class without such a default gets the
\* value inferred from its arguments (a FuncCall built without null_safe
\* passes an explicit True of its own).
NullabilityPrecedence ==
    nres # Unbuilt =>
        IF nexplicit # NoneB THEN nres = Ok(nexplicit[1])
        ELSE CASE nkind \in {"SelectStmt", "NullConstant"} -> nres = Ok(TRUE)
               [] nkind \in {"VariadicArgument"} \cup HardCodedKinds -> nres = Ok(FALSE)
               [] nkind = "FuncCall" /\ ~null_safe -> nres = Ok(TRUE)
               [] nkind \in {"Expr", "Indirection"} ->
                    nres = Ok(\E i \in 1..Len(nkwargs) : NullableArg(nkwargs[i].val))
               [] OTHER -> nres = InferFor(nkind, nkwargs)

\* A SelectStmt built with nullable=False over a nullable child is stored
\* as non-nullable.
NullabilityPrecedenceWitness ==
    /\ nkind = "SelectStmt"
    /\ nexplicit = SomeB(FALSE)
    /\ \E i \in 1..Len(nkwargs) : NullableArg(nkwargs[i].val)
    /\ nres = Ok(FALSE)

\* C10: a COALESCE node built without nullable= over two or more arguments
\* is nullable exactly when its last argument is.
CoalesceFollowsLast ==
    (nkind = "CoalesceExpr" /\ nexplicit = NoneB /\ nres # Unbuilt
        /\ HasKw(nkwargs, "args")) =>
        LET items == KwVal(nkwargs, "args").items
        IN  Len(items) >= 2 => nres = Ok(items[Len(items)].nullable)

\* C11: a FuncCall built without nullable= is nullable when null_safe is
\* false, whatever its arguments; with null_safe it is nullable exactly when
\* one of its arguments is nullable or holds a nullable child; a nullable=
\* given by the caller is stored whatever null_safe says.
FuncCallNullability ==
    (nkind = "FuncCall" /\ nres # Unbuilt) =>
        IF nexplicit # NoneB THEN nres = Ok(nexplicit[1])
        ELSE IF ~null_safe THEN nres = Ok(TRUE)
        ELSE nres = Ok(\E i \in 1..Len(nkwargs) : NullableArg(nkwargs[i].val))

\* A null-safe call over non-nullable args and a SortBy list came out
\* non-nullable.
FuncCallNullabilityWitness ==
    /\ nkind = "FuncCall"
    /\ nexplicit = NoneB
    /\ null_safe
    /\ HasKw(nkwargs, "args") /\ Len(KwVal(nkwargs, "args").items) = 2
    /\ HasKw(nkwargs, "agg_order") /\ KwVal(nkwargs, "agg_order") # NoneV
    /\ nres = Ok(FALSE)

\* C12: SubLink, NullTest, BooleanTest, RowExpr and ImplicitRowExpr built
\* without nullable= are non-nullable, whatever their operands.
HardCodedNonNullable ==
    (nkind \in HardCodedKinds /\ nexplicit = NoneB /\ nres # Unbuilt) =>
        nres = Ok(FALSE)

\* A RowExpr over a nullable field came out non-nullable.
HardCodedNonNullableWitness ==
    /\ nkind = "RowExpr"
    /\ nexplicit = NoneB
    /\ \E i \in 1..Len(nkwargs) : NullableArg(nkwargs[i].val)
    /\ nres = Ok(FALSE)

(***************************************************************************)
(* Properties of the DML statements.                                       *)
(***************************************************************************)
\* C13: at every point of the life of an INSERT, UPDATE or DELETE node, after
\* any additions to and removals from its returning list and after the field
\* is given another list, target_list is the very list object that
\* returning_list holds: evaluating it makes no new list, and what the last
\* evaluation gave is the list the field held then.
TargetListIsReturningList ==
    /\ target_list(dml, rlists).ret = dml.returning_list
    /\ target_list(dml, rlists).heap = rlists
    /\ dop = "target_list" =>
          /\ dret = dml.returning_list
          /\ rlists[dret] = rlists[dml.returning_list]

\* An UPDATE whose returning_list was replaced and then extended was read
\* through target_list.
TargetListIsReturningListWitness ==
    /\ dml.cls = "UpdateStmt"
    /\ dop = "target_list"
    /\ dml.returning_list = 2
    /\ Len(rlists[2]) = 2
    /\ dret = 2

(***************************************************************************)
(* Properties of query.                                                    *)
(***************************************************************************)
\* what a range variable with a backing relation denotes
Denotes(h, rv) ==
    CASE h[rv].cls = "RelRangeVar" ->
            IF h[rv].relation = CteId THEN h[CteId].query ELSE h[rv].relation
      [] h[rv].cls = "RangeSubselect" -> h[rv].subquery

\* C14 as stated: a base reference, a CTE reference, a subquery range
\* variable and an intersection range variable all answer query with a
\* relation, the first three with the relation they denote.
QueryResolvesEveryVariant ==
    (qrv # 0 /\ rheap[qrv].cls \in
        {"RelRangeVar", "RangeSubselect", "IntersectionRangeVar"}) =>
        /\ qres.err = "ok"
        /\ rheap[qres.ret].cls \in RelationClasses
        /\ rheap[qrv].cls # "IntersectionRangeVar" => qres.ret = Denotes(rheap, qrv)

\* C14, amended: a base reference answers query with its backing relation,
\* a CTE reference with the query the CTE holds at that moment (never the
\* CTE), a subquery range variable with its subquery; an intersection
\* range variable has no query of its own and the read raises
\* NotImplementedError.
QueryResolvesBacked ==
    qrv # 0 =>
        CASE rheap[qrv].cls \in {"RelRangeVar", "RangeSubselect"} ->
                /\ qres.err = "ok"
                /\ rheap[qres.ret].cls \in RelationClasses
                /\ qres.ret = Denotes(rheap, qrv)
                /\ qres.ret # CteId
          [] rheap[qrv].cls = "IntersectionRangeVar" ->
                qres = [err |-> "NotImplementedError", ret |-> 0]
          [] OTHER -> TRUE

\* The CTE reference was read and gave the CTE's query.
QueryResolvesBackedWitness ==
    /\ qrv = 5
    /\ rheap[5].relation = CteId
    /\ qres.err = "ok"
    /\ qres.ret = rheap[CteId].query
    /\ qres.ret = 3

Unbacked == {"DynamicRangeVar", "PathRangeVar", "IntersectionRangeVar"}

\* C15 as stated: reading query on a dynamic range variable, on the abstract
\* path range variable or on an intersection raises AssertionError, returns
\* no relation and leaves the heap as it was.
QueryFailsWithAssertion ==
    [][(qrv' # 0 /\ rheap[qrv'].cls \in Unbacked) =>
          /\ qres' = [err |-> "AssertionError", ret |-> 0]
          /\ rheap' = rheap]_vars

\* C15, amended: reading query on a dynamic range variable raises
\* AssertionError; on the abstract path range variable and on an
\* intersection it raises NotImplementedError, which is not an assertion
\* error.  In each case the raise is unconditional, no relation is returned
\* and the heap is left as it was.
QueryFailsUnbacked ==
    [][(qrv' # 0 /\ rheap[qrv'].cls \in Unbacked) =>
          /\ qres'.err = IF rheap[qrv'].cls = "DynamicRangeVar"
                         THEN "AssertionError" ELSE "NotImplementedError"
          /\ qres'.ret = 0
          /\ rheap' = rheap]_vars

\* An intersection of two range variables was asked for its query and the
\* read raised.
QueryFailsUnbackedWitness ==
    /\ qrv = 7
    /\ Len(rheap[7].component_rvars) = 2
    /\ qres = [err |-> "NotImplementedError", ret |-> 0]

(***************************************************************************)
(* Nullability after construction.                                         *)
(***************************************************************************)
\* C16: nullability is computed once.  After every step, each node holds in
\* nullable the value its constructor or a later assignment to that very
\* field stored: building a parent over it, assigning a child's nullable,
\* appending a join clause, appending a CTE or writing a path map changes
\* no other node's value, and no range variable's value once it is built.
NullableComputedOnce ==
    [][/\ \A i \in 1..Len(nodes') : nodes'[i].nullable = nstored'[i]
       /\ \A i \in 1..Len(nodes) : nstored'[i] # nstored[i] => nodes[i].cls \in LeafKinds
       /\ \A i \in 1..Len(rvars) : rvars'[i].nullable = rvars[i].nullable]_vars

\* A RelRangeVar built over a non-nullable relation stayed non-nullable
\* after the relation was made nullable, and a join built over non-nullable
\* range variables stayed non-nullable after a nullable clause was appended,
\* a CTE was appended and the packed output map was written.
NullableComputedOnceWitness ==
    /\ \E p \in 1..Len(nodes) :
          /\ nodes[p].cls = "RelRangeVar"
          /\ ~nodes[p].nullable
          /\ nodes[nodes[p].kids[1]].nullable
    /\ \E j \in 1..Len(rvars) :
          /\ rvars[j].cls = "JoinExpr"
          /\ ~rvars[j].nullable
          /\ \E c \in 1..Len(rvars[j].joins) : rvars[j].joins[c].nullable
    /\ ctes # NoneL
    /\ nwrites > 0

(***************************************************************************)
(* Path bonds.                                                             *)
(***************************************************************************)
BondOps == {"add_bond", "discard_bond"}
MapFields == {"path_outputs", "packed_path_outputs", "path_namespace",
              "packed_path_namespace", "path_rvar_map", "path_packed_rvar_map"}

\* C17: path bonds are independent of path outputs.  A call of an accessor
\* with any flavor and a write to or a removal from an output map, the
\* namespace map or a range-variable map leave path_bonds and path_id_mask
\* as they were; adding or discarding a bond leaves every map, and which
\* map each field holds, as it was.
BondsIndependent ==
    [][/\ pop'.name \notin BondOps =>
            /\ q'.path_bonds = q.path_bonds
            /\ q'.path_id_mask = q.path_id_mask
       /\ pop'.name \in BondOps =>
            /\ maps' = maps
            /\ \A f \in MapFields : q'[f] = q[f]]_vars

\* An output for P1 was written to the packed map of a node that has no
\* bond at all.
BondsIndependentWitness ==
    /\ pop = [name |-> "setitem", flavor |-> "packed"]
    /\ q.packed_path_outputs # 0
    /\ HasKey(maps[q.packed_path_outputs], <<"P1", "VALUE">>)
    /\ q.path_bonds = {}

(***************************************************************************)
(* Properties of the LRU cache.                                            *)
(***************************************************************************)
\* C18: capacity.  A cache built with maxsize M > 0 never stores more than
\* M entries, whatever reads, writes, removals and membership tests were
\* made; a constructor call with maxsize <= 0 raises ValueError and leaves
\* no cache.
LruCapacity ==
    /\ lru.built => /\ lmaxsize > 0
                     /\ lru._maxsize = lmaxsize
                     /\ Len(lru._dict) <= lmaxsize
                     /\ Cardinality(KeysOf(lru._dict)) = Len(lru._dict)
    /\ (lmaxsize <= 0 /\ lop.name # "none") =>
            /\ ~lru.built
            /\ lop.name = "__init__" /\ lop.err = "ValueError"

\* A write of a new key to a full cache of two entries left two entries.
LruCapacityWitness ==
    /\ lru.built
    /\ lmaxsize = 2
    /\ lop.name = "__setitem__"
    /\ levicted # {}
    /\ Len(lru._dict) = 2

\* C19: eviction order.  A write of a new key to a full cache evicts exactly
\* one entry, the one least recently touched, a touch being an insertion, an
\* overwrite or a successful read; the new key is stored with its value and
\* every other entry keeps its value.
LruEvictsLeastRecent ==
    [][(/\ lop'.name = "__setitem__"
        /\ lru.built
        /\ lop'.key \notin KeysOf(lru._dict)
        /\ Len(lru._dict) = lru._maxsize) =>
          LET d == lru._dict
              d2 == lru'._dict
              oldest == Head(ltouch)
          IN  /\ KeysOf(d) \ KeysOf(d2) = {oldest}
              /\ KeysOf(d2) = (KeysOf(d) \ {oldest}) \cup {lop'.key}
              /\ Len(d2) = Len(d)
              /\ ValueOf(d2, lop'.key) = lop'.val
              /\ \A k \in KeysOf(d) \ {oldest} : ValueOf(d2, k) = ValueOf(d, k)]_vars

\* After a and b were stored and a was touched again, the write of c
\* evicted b and kept a with its value.
LruEvictsLeastRecentWitness ==
    /\ lru.built
    /\ lop.name = "__setitem__" /\ lop.key = "c"
    /\ levicted = {"b"}
    /\ Len(lru._dict) = 2
    /\ lru._dict[1].k = "a"
    /\ lru._dict[2].k = "c"

(***************************************************************************)
(* Properties of the iterator CTEs.                                        *)
(***************************************************************************)
\* the number of parent links from node i to a node without a parent, or
\* -1 when none is reached within fuel links
RECURSIVE ChainLength(_, _, _)
ChainLength(h, i, fuel) ==
    IF h[i].parent = 0 THEN 0
    ELSE IF fuel = 0 THEN -1
    ELSE LET n == ChainLength(h, h[i].parent, fuel - 1)
         IN  IF n = -1 THEN -1 ELSE n + 1
\* the nodes reached from i by one or more parent links, within fuel links
RECURSIVE Ancestors(_, _, _)
Ancestors(h, i, fuel) ==
    IF h[i].parent = 0 \/ fuel = 0 THEN {}
    ELSE {h[i].parent} \cup Ancestors(h, h[i].parent, fuel - 1)

\* C20: iterator-CTE chains are acyclic.  From every node the parent links
\* reach a node without a parent within as many links as there are nodes,
\* no node is among its own ancestors, and the parent of a node was built
\* before the node; an assignment to parent on a built node is refused.
IteratorChainsAcyclic ==
    /\ \A i \in 1..Len(iters) :
          /\ iters[i].parent < i
          /\ ChainLength(iters, i, Len(iters)) \in 0..(Len(iters) - 1)
          /\ i \notin Ancestors(iters, i, Len(iters))
    /\ iop.name = "parent" => iop.err = "TypeError"

\* Three nodes form a chain and an assignment that would have closed it
\* into a cycle was refused.
IteratorChainsAcyclicWitness ==
    /\ Len(iters) = 3
    /\ iters[3].parent = 2 /\ iters[2].parent = 1 /\ iters[1].parent = 0
    /\ iop = [name |-> "parent", id |-> 1, err |-> "TypeError"]

PackedField(name) ==
    IF name = "get_path_outputs" THEN "packed_path_outputs"
    ELSE "path_packed_rvar_map"
FamilyOf(name) == IF name = "get_path_outputs" THEN "outputs" ELSE "rvars"

\* C21: get_path_outputs('packed') (resp. get_rvar_map('packed')) on a node
\* whose packed map is absent stores a new, empty dict in the packed field
\* and returns it, touching no other field and no existing dict; on a node
\* that has the packed map it returns that very map, holding every entry
\* written so far, and changes nothing; a packed field that holds a map keeps
\* holding the same one under every operation; and an accessor called with
\* flavor 'normal' changes no field of the node.
LazyInitOnce ==
    [][ /\ \A name \in Creators :
            (pop'.name = name /\ pop'.flavor = "packed") =>
                IF q[PackedField(name)] = 0
                THEN /\ perr' = "ok"
                     /\ pret' \notin DOMAIN maps
                     /\ pret' \in DOMAIN maps'
                     /\ maps'[pret'] = EmptyDict
                     /\ \A i \in DOMAIN maps : maps'[i] = maps[i]
                     /\ q' = [q EXCEPT ![PackedField(name)] = pret']
                ELSE /\ perr' = "ok"
                     /\ pret' = q[PackedField(name)]
                     /\ q' = q
                     /\ maps' = maps
                     /\ maps'[pret'] = shadow[<<FamilyOf(name), "packed">>]
        /\ (pop'.name \in Accessors /\ pop'.flavor = "normal") => q' = q
        /\ \A name \in Creators :
            q[PackedField(name)] # 0 => q'[PackedField(name)] = q[PackedField(name)]
      ]_vars

\* The packed output map was created by an accessor call, not passed to the
\* constructor; P1's two aspects were written through it; and
\* get_path_outputs('packed') has just returned it again, with both entries.
LazyInitOnceWitness ==
    /\ "packed_path_outputs" \notin psupplied
    /\ pop = [name |-> "get_path_outputs", flavor |-> "packed"]
    /\ perr = "ok"
    /\ pret = q.packed_path_outputs
    /\ DictGet(maps[pret], <<"P1", "VALUE">>) = "R1"
    /\ DictGet(maps[pret], <<"P1", "IDENTITY">>) = "R2"

\* C22: maybe_get_rvar_map changes no field of the query and no dict.  For
\* 'packed' it returns None while get_rvar_map('packed') has not been called
\* on the query and no packed map was passed to its constructor; after
\* either, it returns the map get_rvar_map('packed') returns, which is the
\* one every packed-flavor reference handed out so far refers to.  For
\* 'normal' it returns the map get_rvar_map('normal') returns.
MaybeGetIsPure ==
    [][ pop'.name = "maybe_get_rvar_map" =>
            /\ q' = q
            /\ maps' = maps
            /\ pop'.flavor = "packed" =>
                /\ perr' = "ok"
                /\ IF "get_rvar_map" \notin pcalled
                        /\ "path_packed_rvar_map" \notin psupplied
                   THEN pret' = 0
                   ELSE /\ pret' # 0
                        /\ get_rvar_map(q', maps', "packed")
                              = Returned(q', maps', pret')
                        /\ \A h \in handles' :
                              (h.fam = "rvars" /\ h.flavor = "packed")
                                  => h.map = pret'
            /\ pop'.flavor = "normal" =>
                /\ perr' = "ok"
                /\ get_rvar_map(q', maps', "normal") = Returned(q', maps', pret')
      ]_vars

\* The query was built without a packed range-variable map,
\* get_rvar_map('packed') created one, an entry for P1 was written to it,
\* and maybe_get_rvar_map('packed') has just returned that map.
MaybeGetIsPureWitness ==
    /\ "path_packed_rvar_map" \notin psupplied
    /\ "get_rvar_map" \in pcalled
    /\ pop = [name |-> "maybe_get_rvar_map", flavor |-> "packed"]
    /\ perr = "ok"
    /\ pret # 0
    /\ pret = q.path_packed_rvar_map
    /\ DictGet(maps[pret], <<"P1", "VALUE">>) = "V2"

\* C23: a write to a key the cache holds replaces the value, puts the
\* entry last in the order of eviction, and keeps the other entries, their
\* values, their order and the entry count, in a full cache too; a
\* membership test, a length query, an iteration and a read of a missing
\* key (KeyError) leave the entries and their order as they were.  The
\* order of the dict stays the order of use, with an overwrite counted as a
\* use and the four other operations not.
LruOverwriteAndReads ==
    [][ lru.built =>
        LET d == lru._dict
            d2 == lru'._dict
        IN  /\ (lop'.name = "__setitem__" /\ lop'.key \in KeysOf(d)) =>
                /\ lop'.err = "ok"
                /\ Len(d2) = Len(d)
                /\ KeysOf(d2) = KeysOf(d)
                /\ d2[Len(d2)] = [k |-> lop'.key, v |-> lop'.val]
                /\ Without(d2, lop'.key) = Without(d, lop'.key)
                /\ KeySeq(d2) = ltouch'
            /\ lop'.name = "__contains__" =>
                /\ lop'.err = "ok"
                /\ lop'.ret = (lop'.key \in KeysOf(d))
            /\ lop'.name = "__len__" =>
                /\ lop'.err = "ok"
                /\ lop'.ret = Len(d)
            /\ lop'.name = "__iter__" =>
                /\ lop'.err = "ok"
                /\ lop'.ret = KeySeq(d)
            /\ (lop'.name = "__getitem__" /\ lop'.key \notin KeysOf(d)) =>
                lop'.err = "KeyError"
            /\ (\/ lop'.name \in {"__contains__", "__len__", "__iter__"}
                \/ lop'.name = "__getitem__" /\ lop'.key \notin KeysOf(d)) =>
                /\ lru' = lru
                /\ KeySeq(d2) = ltouch'
      ]_vars

\* In a full cache of two entries, a and then b, the write a = y found a
\* stored: nothing was evicted, b is now the first to go and a holds y.
LruOverwriteAndReadsWitness ==
    /\ lru.built
    /\ lmaxsize = 2
    /\ lop.name = "__setitem__" /\ lop.key = "a" /\ lop.val = "y"
    /\ lhad
    /\ levicted = {}
    /\ lru._dict = <<[k |-> "b", v |-> "x"], [k |-> "a", v |-> "y"]>>

====
